---- MODULE Spec2Model ----
(***************************************************************************)
(* Model of src/main.py: the GraphQL resolvers getApplicationWithQuestion  *)
(* and saveAnswers over a graph store, the module-level driver handle and  *)
(* the record mappers.  Every session.run is one auto-commit request, which *)
(* the store executes atomically; requests of different calls interleave.  *)
(***************************************************************************)
EXTENDS Integers, Sequences, FiniteSets, TLC

\* ------------------------------------------------------------------ bounds
MaxBatch == 1      \* longest answers list of one saveAnswers call
MaxClock == 1      \* largest value of the store's timestamp()
MaxCalls == 2      \* requests handled over the life of the process
MaxRows  == 2      \* longest row list handed to the reconciliation step

\* request slots: two requests can be in flight at the same time
Procs == {1, 2}

\* ------------------------------------------------------- store: fixed part
\* uuids a caller may pass; application "A2" has no questions and "Q99"
\* names no Question
AppUuids      == {"A1", "A2"}
QuestionUuids == {"Q1", "Q2", "Q99"}
\* the (answer, type) a caller may pass with a question uuid
Payloads      == {<<"Paris", "string">>, <<"42", "int">>}

\* AnswerType: member name -> value
AnswerType == [string |-> "String", int |-> "Int"]

ApplicationNode(a) ==
    [uuid |-> a, name |-> "app", version |-> "1", created_at |-> 0, updated_at |-> 0]

QuestionNode(q) ==
    [uuid |-> q, section_uuid |-> "S1", order |-> IF q = "Q1" THEN 2 ELSE 1,
     type |-> "String", question_string |-> "?"]

\* (app:Application)-->(q:Question) edges of the store
HasQuestion == {<<"A1", "Q1">>, <<"A1", "Q2">>}

None == [isNone |-> TRUE]

VARIABLES
    driver,        \* the process-wide handle `graph`: "open" | "closed"
    phase,         \* "import" while the module body runs, then "serving"
    applications,  \* Application nodes of the store
    questions,     \* Question nodes of the store
    rels,          \* HAS_ANSWER relationships, each with its Answer node
    clock,         \* last value timestamp() returned
    nextUuid,      \* next value of apoc.create.uuid()
    pc,            \* per request slot: position in the handler
    op,            \* per request slot: the call and its arguments
    ans_rows,      \* getApplicationWithQuestion local
    no_ans_rows,   \* getApplicationWithQuestion local
    result,        \* per request slot: what the handler returned or raised
    sessDriver,    \* state of `graph` when the slot's session was opened
    ranAfter,      \* the finished saves whose write request ran before the slot's
    nCalls,        \* requests accepted so far
    created        \* HAS_ANSWER relationships ever created, per (q, app)

vars == <<driver, phase, applications, questions, rels, clock, nextUuid, pc, op,
          ans_rows, no_ans_rows, result, sessDriver, ranAfter, nCalls, created>>

storeVars == <<applications, questions, rels, clock, nextUuid, created>>
getVars   == <<ans_rows, no_ans_rows>>

\* ------------------------------------------------------------ helpers
RECURSIVE SeqsUpTo(_, _)
SeqsUpTo(S, n) ==
    IF n = 0 THEN {<<>>}
    ELSE LET shorter == SeqsUpTo(S, n - 1)
         IN shorter \cup {Append(s, x) : s \in {t \in shorter : Len(t) = n - 1}, x \in S}

\* every order in which the store may return the rows of a result set
RECURSIVE Orderings(_)
Orderings(S) ==
    IF S = {} THEN {<<>>}
    ELSE UNION {{<<x>> \o t : t \in Orderings(S \ {x})} : x \in S}

Pairs == {<<q, a>> : q \in QuestionUuids, a \in AppUuids}

\* dict.get(key): the value, or None when the key is absent
Get(d, k) == IF k \in DOMAIN d THEN d[k] ELSE None

\* ------------------------------------------------------------ Record Mapper
\* SaveAnswerInput.to_dict
to_dict(a) ==
    [answer |-> a.answer, type |-> AnswerType[a.type], questionUuid |-> a.questionUuid]

\* SaveAnswersInput.serialize
serialize(data) == [i \in 1..Len(data.answers) |-> to_dict(data.answers[i])]

\* Answer.marshal
AnswerMarshal(obj) ==
    [uuid |-> obj.uuid, answer |-> obj.answer, type |-> obj.type,
     createdAt |-> obj.created_at, updatedAt |-> obj.updated_at]

\* Question.marshal
QuestionMarshal(question, answer) ==
    [uuid |-> question.uuid, sectionUuid |-> question.section_uuid,
     order |-> question.order, type |-> question.type,
     questionString |-> question.question_string,
     answer |-> IF answer = None THEN None ELSE AnswerMarshal(answer)]

\* Application.marshal
ApplicationMarshal(application) ==
    LET qs == application.questions
    IN [uuid |-> application.uuid, name |-> application.name,
        version |-> application.version,
        createdAt |-> application.created_at, updatedAt |-> application.updated_at,
        questions |-> [i \in 1..Len(qs) |->
                         QuestionMarshal(Get(qs[i], "question"), Get(qs[i], "answer"))]]

\* --------------------------------------------------- the store's read side
\* the Answer node at the end of a HAS_ANSWER relationship
AnswerOf(r) ==
    [uuid |-> r.a_uuid, answer |-> r.a_answer, type |-> r.a_type,
     created_at |-> r.a_created_at, updated_at |-> r.a_updated_at]

\* ans_query with the relationship pattern not scoped to the application
AnsQueryRowsUnscoped(applicationUuid) ==
    {[app |-> a, q |-> q, qa |-> r.r_uuid,
      ans |-> [uuid |-> r.a_uuid, answer |-> r.a_answer, type |-> r.a_type,
               created_at |-> r.a_created_at, updated_at |-> r.a_updated_at]] :
        <<a, q, r>> \in {t \in applications \X questions \X rels :
            /\ t[1].uuid = applicationUuid
            /\ <<t[1].uuid, t[2].uuid>> \in HasQuestion
            /\ t[3].q = t[2].uuid}}

\* ans_query: (app {uuid})-->(q:Question)-[qa:HAS_ANSWER {has_application_uuid}]->(ans)
AnsQueryRows(applicationUuid) ==
    {[app |-> a, q |-> q, qa |-> r.r_uuid, ans |-> AnswerOf(r)] :
        <<a, q, r>> \in {t \in applications \X questions \X rels :
            /\ t[1].uuid = applicationUuid
            /\ <<t[1].uuid, t[2].uuid>> \in HasQuestion
            /\ t[3].q = t[2].uuid
            /\ t[3].has_application_uuid = applicationUuid}}

\* no_ans_query: (app {uuid})-->(q:Question) WHERE NOT (q)-[:HAS_ANSWER {...}]->()
NoAnsQueryRows(applicationUuid) ==
    {[app |-> a, q |-> q] :
        <<a, q>> \in {t \in applications \X questions :
            /\ t[1].uuid = applicationUuid
            /\ <<t[1].uuid, t[2].uuid>> \in HasQuestion
            /\ ~ \E r \in rels : /\ r.q = t[2].uuid
                                 /\ r.has_application_uuid = applicationUuid}}

\* --------------------------------------------------- Reconciliation Engine
\* the reconciliation with the unanswered rows appended first
ReconcileUnansweredFirst(ans, no_ans) ==
    IF ans = <<>> /\ no_ans = <<>>
    THEN [kind |-> "error", error |-> "UnboundLocalError"]
    ELSE LET app0 == IF no_ans # <<>> THEN no_ans[1].app ELSE ans[1].app
             answered   == [i \in 1..Len(ans) |->
                              [question |-> ans[i].q, answer |-> ans[i].ans]]
             unanswered == [i \in 1..Len(no_ans) |-> [question |-> no_ans[i].q]]
             app == [uuid |-> app0.uuid, name |-> app0.name, version |-> app0.version,
                     created_at |-> app0.created_at, updated_at |-> app0.updated_at,
                     questions |-> unanswered \o answered]
         IN [kind |-> "ok", value |-> ApplicationMarshal(app)]

\* lines 183-199: pick the application map, append answered rows, then
\* unanswered rows, marshal.  With both row lists empty `app` is never
\* bound and line 199 raises UnboundLocalError.
Reconcile(ans, no_ans) ==
    IF ans = <<>> /\ no_ans = <<>>
    THEN [kind |-> "error", error |-> "UnboundLocalError"]
    ELSE LET app0 == IF no_ans # <<>> THEN no_ans[1].app ELSE ans[1].app
             answered   == [i \in 1..Len(ans) |->
                              [question |-> ans[i].q, answer |-> ans[i].ans]]
             unanswered == [i \in 1..Len(no_ans) |-> [question |-> no_ans[i].q]]
             app == [uuid |-> app0.uuid, name |-> app0.name, version |-> app0.version,
                     created_at |-> app0.created_at, updated_at |-> app0.updated_at,
                     questions |-> answered \o unanswered]
         IN [kind |-> "ok", value |-> ApplicationMarshal(app)]

\* -------------------------------------------------- Answer Upsert: MERGE
\* CREATE in place of MERGE: nothing ever matches
MergeMatchesNone(rs, questionUuid, applicationUuid) == {}

\* the pattern without its has_application_uuid property
MergeMatchesAnyApplication(rs, questionUuid, applicationUuid) ==
    {r \in rs : r.q = questionUuid}

\* the pattern (q)-[r:HAS_ANSWER {has_application_uuid: A}]->(a:Answer)
MergeMatches(rs, questionUuid, applicationUuid) ==
    {r \in rs : r.q = questionUuid /\ r.has_application_uuid = applicationUuid}

\* ON CREATE SET
OnCreate(answer, applicationUuid, uuid, now) ==
    [q |-> answer.questionUuid, has_application_uuid |-> applicationUuid,
     a_uuid |-> uuid, a_type |-> answer.type, a_answer |-> answer.answer,
     a_created_at |-> now, a_updated_at |-> now,
     r_uuid |-> uuid + 1, r_created_at |-> now, r_updated_at |-> now]

\* ON MATCH SET without a.type
OnMatchKeepsType(r, answer, now) ==
    [r EXCEPT !.a_answer = answer.answer, !.a_updated_at = now, !.r_updated_at = now]

\* ON MATCH SET
OnMatch(r, answer, now) ==
    [r EXCEPT !.a_type = answer.type, !.a_answer = answer.answer,
              !.a_updated_at = now, !.r_updated_at = now]

\* one UNWIND row: MATCH the question, MERGE the relationship
MergeRow(st, answer, applicationUuid, now) ==
    IF ~ \E qn \in questions : qn.uuid = answer.questionUuid
    THEN st
    ELSE LET m == MergeMatches(st.rels, answer.questionUuid, applicationUuid)
         IN IF m = {}
            THEN [rels |-> st.rels \cup
                             {OnCreate(answer, applicationUuid, st.nextUuid, now)},
                  nextUuid |-> st.nextUuid + 2,
                  created |-> [st.created EXCEPT
                                 ![<<answer.questionUuid, applicationUuid>>] = @ + 1]]
            ELSE [rels |-> (st.rels \ m) \cup {OnMatch(r, answer, now) : r \in m},
                  nextUuid |-> st.nextUuid,
                  created |-> st.created]

\* the whole query of saveAnswers: the rows of $answers, in order
RECURSIVE RunQuery(_, _, _, _)
RunQuery(st, answers, applicationUuid, now) ==
    IF answers = <<>> THEN st
    ELSE RunQuery(MergeRow(st, Head(answers), applicationUuid, now),
                  Tail(answers), applicationUuid, now)

\* ------------------------------------------------------------ inputs
\* a triple for a question that does not exist yields no row whatever its
\* payload, so one payload stands for all of them
Triples ==
    {[answer |-> pl[1], questionUuid |-> q, type |-> pl[2]] :
        q \in QuestionUuids \ {"Q99"}, pl \in Payloads}
    \cup {[answer |-> "x", questionUuid |-> "Q99", type |-> "string"]}
Batches == SeqsUpTo(Triples, MaxBatch)
NoOp    == [call |-> "none"]

\* ------------------------------------------------------------ Init
Init ==
    /\ driver = "open"
    /\ phase = "import"
    /\ applications = {ApplicationNode(a) : a \in AppUuids}
    /\ questions = {QuestionNode(q) : q \in {"Q1", "Q2"}}
    /\ rels = {}
    /\ clock = 0
    /\ nextUuid = 1
    /\ pc = [p \in Procs |-> "idle"]
    /\ op = [p \in Procs |-> NoOp]
    /\ ans_rows = [p \in Procs |-> <<>>]
    /\ no_ans_rows = [p \in Procs |-> <<>>]
    /\ result = [p \in Procs |-> None]
    /\ sessDriver = [p \in Procs |-> "none"]
    /\ ranAfter = [p \in Procs |-> {}]
    /\ nCalls = 0
    /\ created = [pr \in Pairs |-> 0]

\* ------------------------------------------------------------ actions
\* line 256: graph.close() at the end of the module body, before serving
ModuleEnd ==
    /\ phase = "import"
    /\ driver' = "closed"
    /\ phase' = "serving"
    /\ UNCHANGED <<storeVars, pc, op, getVars, result, sessDriver, ranAfter, nCalls>>

\* a request arrives in the lowest free slot and the handler opens its
\* session (lines 173, 211)
Begin(p, call, next) ==
    /\ phase = "serving"
    /\ pc[p] = "idle"
    /\ \A o \in Procs : o < p => pc[o] # "idle"
    /\ nCalls < MaxCalls
    /\ nCalls' = nCalls + 1
    /\ op' = [op EXCEPT ![p] = [call |-> call]]
    /\ sessDriver' = [sessDriver EXCEPT ![p] = driver]
    /\ pc' = [pc EXCEPT ![p] = next]
    /\ UNCHANGED <<driver, phase, storeVars, getVars, result, ranAfter>>

GetBegin(p) == Begin(p, "get", "ans_query")

SaveBegin(p) == Begin(p, "save", "save_query")

\* a session on the closed driver: some driver versions refuse it
DriverRefused == [kind |-> "error", error |-> "DriverError"]

SessionRefused(p) ==
    /\ pc[p] \in {"ans_query", "save_query"}
    /\ sessDriver[p] = "closed"
    /\ pc' = [pc EXCEPT ![p] = "done"]
    /\ result' = [result EXCEPT ![p] = DriverRefused]
    /\ UNCHANGED <<driver, phase, storeVars, op, getVars, sessDriver, ranAfter, nCalls>>

\* lines 154-161, 174-177; the argument is drawn where it is first read
ReadAnswered(p) ==
    /\ pc[p] = "ans_query"
    /\ \E a \in AppUuids :
          /\ op' = [op EXCEPT ![p] = [call |-> "get", applicationUuid |-> a]]
          /\ \E rows \in Orderings(AnsQueryRows(a)) :
                ans_rows' = [ans_rows EXCEPT ![p] = rows]
    /\ pc' = [pc EXCEPT ![p] = "no_ans_query"]
    /\ UNCHANGED <<driver, phase, storeVars, no_ans_rows, result, sessDriver,
                   ranAfter, nCalls>>

\* lines 163-172, 178-199: the second read, then the reconciliation of the
\* two row lists, which touches nothing but the handler's locals
ReadUnanswered(p) ==
    /\ pc[p] = "no_ans_query"
    /\ \E rows \in Orderings(NoAnsQueryRows(op[p].applicationUuid)) :
          /\ no_ans_rows' = [no_ans_rows EXCEPT ![p] = rows]
          /\ result' = [result EXCEPT ![p] = Reconcile(ans_rows[p], rows)]
    /\ pc' = [pc EXCEPT ![p] = "done"]
    /\ UNCHANGED <<driver, phase, storeVars, op, ans_rows, sessDriver, ranAfter, nCalls>>

\* lines 209-237: one write request, then return None; the arguments are
\* drawn where they are first read
RunSave(p) ==
    /\ pc[p] = "save_query"
    /\ \E a \in AppUuids, b \in Batches, now \in {t \in {clock, clock + 1} : t <= MaxClock} :
          LET data == [call |-> "save", applicationUuid |-> a, answers |-> b]
              st == RunQuery([rels |-> rels, nextUuid |-> nextUuid, created |-> created],
                             serialize(data), data.applicationUuid, now)
          IN /\ op' = [op EXCEPT ![p] = data]
             /\ rels' = st.rels
             /\ nextUuid' = st.nextUuid
             /\ created' = st.created
             /\ clock' = now
    /\ ranAfter' = [ranAfter EXCEPT
                      ![p] = {o \in Procs : pc[o] = "done" /\ op[o].call = "save"
                                            /\ result[o].kind = "ok"}]
    /\ result' = [result EXCEPT ![p] = [kind |-> "ok", value |-> None]]
    /\ pc' = [pc EXCEPT ![p] = "done"]
    /\ UNCHANGED <<driver, phase, applications, questions, getVars, sessDriver, nCalls>>

\* the response is sent; the slot is free again
Return(p) ==
    /\ pc[p] = "done"
    /\ pc' = [pc EXCEPT ![p] = "idle"]
    /\ op' = [op EXCEPT ![p] = NoOp]
    /\ ans_rows' = [ans_rows EXCEPT ![p] = <<>>]
    /\ no_ans_rows' = [no_ans_rows EXCEPT ![p] = <<>>]
    /\ result' = [result EXCEPT ![p] = None]
    /\ sessDriver' = [sessDriver EXCEPT ![p] = "none"]
    /\ ranAfter' = [o \in Procs |-> IF o = p THEN {} ELSE ranAfter[o] \ {p}]
    /\ UNCHANGED <<driver, phase, storeVars, nCalls>>

\* lines 183-199 alone, on row lists handed to it
DoReconcile(p) ==
    /\ pc[p] = "reconcile"
    /\ result' = [result EXCEPT ![p] = Reconcile(ans_rows[p], no_ans_rows[p])]
    /\ pc' = [pc EXCEPT ![p] = "done"]
    /\ UNCHANGED <<driver, phase, storeVars, op, getVars, sessDriver, ranAfter, nCalls>>

Step(p) ==
    \/ GetBegin(p)
    \/ SaveBegin(p)
    \/ SessionRefused(p)
    \/ ReadAnswered(p)
    \/ ReadUnanswered(p)
    \/ RunSave(p)
    \/ Return(p)

Next == ModuleEnd \/ \E p \in Procs : Step(p)

Spec == Init /\ [][Next]_vars

\* one request at a time
SeqNext == ModuleEnd \/ \E p \in Procs : (\A o \in Procs \ {p} : pc[o] = "idle") /\ Step(p)

SeqSpec == Init /\ [][SeqNext]_vars

\* the reconciliation step on arbitrary row lists for application "A1"
AnsRowInputs ==
    {[app |-> ApplicationNode("A1"), q |-> QuestionNode(t.questionUuid), qa |-> 2,
      ans |-> AnswerOf(OnCreate(to_dict(t), "A1", 1, 0))] :
        t \in {x \in Triples : x.questionUuid \in {"Q1", "Q2"}}}

NoAnsRowInputs ==
    {[app |-> ApplicationNode("A1"), q |-> QuestionNode(q)] : q \in {"Q1", "Q2"}}

ReconInit ==
    /\ driver = "closed"
    /\ phase = "serving"
    /\ applications = {ApplicationNode(a) : a \in AppUuids}
    /\ questions = {QuestionNode(q) : q \in {"Q1", "Q2"}}
    /\ rels = {}
    /\ clock = 0
    /\ nextUuid = 1
    /\ pc = [p \in Procs |-> IF p = 1 THEN "reconcile" ELSE "idle"]
    /\ op = [p \in Procs |-> IF p = 1 THEN [call |-> "get", applicationUuid |-> "A1"]
                                       ELSE NoOp]
    /\ \E a \in SeqsUpTo(AnsRowInputs, MaxRows), n \in SeqsUpTo(NoAnsRowInputs, MaxRows) :
          /\ ans_rows = [p \in Procs |-> IF p = 1 THEN a ELSE <<>>]
          /\ no_ans_rows = [p \in Procs |-> IF p = 1 THEN n ELSE <<>>]
    /\ result = [p \in Procs |-> None]
    /\ sessDriver = [p \in Procs |-> IF p = 1 THEN "closed" ELSE "none"]
    /\ ranAfter = [p \in Procs |-> {}]
    /\ nCalls = 1
    /\ created = [pr \in Pairs |-> 0]

ReconNext == \E p \in Procs : DoReconcile(p)

ReconSpec == ReconInit /\ [][ReconNext]_vars

\* =================================================================== claims
ExistingQuestionUuids == {qn.uuid : qn \in questions}

RelsFor(rs, q, a) == {r \in rs : r.q = q /\ r.has_application_uuid = a}

\* the last triple of a batch that names question q
LastFor(b, q) ==
    b[CHOOSE i \in 1..Len(b) :
        /\ b[i].questionUuid = q
        /\ \A j \in (i + 1)..Len(b) : b[j].questionUuid # q]

InBatch(b, q) == \E i \in 1..Len(b) : b[i].questionUuid = q

\* slot p's save has run its write request and not yet returned
SaveRan(p) == pc[p] = "done" /\ op[p].call = "save" /\ result[p] # DriverRefused

\* slot p's fetch has run both traversals and not yet returned
Traversed(p) == pc[p] = "done" /\ op[p].call = "get" /\ result[p] # DriverRefused

\* slot p runs its write request in this step
SaveStep(p) == pc[p] = "save_query" /\ pc'[p] = "done" /\ result'[p] # DriverRefused

\* C1: a save that contains a triple for an existing question Q under
\* application A leaves exactly one HAS_ANSWER relationship for (Q, A); when
\* one existed before, the save sets the Answer's answer, type and updatedAt
\* and the relationship's updatedAt to the call's values and keeps both
\* uuids and both createdAt.
C1Step ==
    \A p \in Procs : SaveStep(p) =>
        LET a == op'[p].applicationUuid
            b == op'[p].answers
        IN \A q \in ExistingQuestionUuids : InBatch(b, q) =>
              LET old == RelsFor(rels, q, a)
                  new == RelsFor(rels', q, a)
                  t == LastFor(b, q)
              IN /\ Cardinality(new) = 1
                 /\ old # {} =>
                      /\ Cardinality(old) = 1
                      /\ \A o \in old, n \in new :
                            /\ n.a_uuid = o.a_uuid
                            /\ n.r_uuid = o.r_uuid
                            /\ n.a_created_at = o.a_created_at
                            /\ n.r_created_at = o.r_created_at
                            /\ n.a_answer = t.answer
                            /\ n.a_type = AnswerType[t.type]
                            /\ n.a_updated_at = clock'
                            /\ n.r_updated_at = clock'

C1_UpsertInPlace == [][C1Step]_vars

\* a second save for a pair has run: the Answer carries the second call's
\* payload and a later updatedAt than its createdAt
C1_Witness ==
    \E p \in Procs : SaveRan(p) /\
        \E r \in rels :
            /\ r.has_application_uuid = op[p].applicationUuid
            /\ InBatch(op[p].answers, r.q)
            /\ r.a_created_at < r.a_updated_at
            /\ r.a_answer = LastFor(op[p].answers, r.q).answer

\* C2: a fetch whose two traversals both returned no rows fails with
\* ApplicationNotFound.
C2_ApplicationNotFound ==
    \A p \in Procs :
        (Traversed(p) /\ ans_rows[p] = <<>> /\ no_ans_rows[p] = <<>>) =>
            result[p] = [kind |-> "error", error |-> "ApplicationNotFound"]

\* C3: a save whose batch names a question that does not exist reports
\* QuestionNotFound.
C3_QuestionNotFound ==
    \A p \in Procs :
        (SaveRan(p) /\ \E i \in 1..Len(op[p].answers) :
                          op[p].answers[i].questionUuid \notin ExistingQuestionUuids) =>
            result[p] = [kind |-> "error", error |-> "QuestionNotFound"]

\* C4: for row lists not both empty the returned questions list is one
\* entry per answered row, in order and with its answer, followed by one
\* entry per unanswered row, in order and with no answer.
C4_Concatenation ==
    \A p \in Procs :
        (Traversed(p) /\ (ans_rows[p] # <<>> \/ no_ans_rows[p] # <<>>)) =>
            /\ result[p].kind = "ok"
            /\ LET qs == result[p].value.questions
                   na == Len(ans_rows[p])
                   nn == Len(no_ans_rows[p])
               IN /\ Len(qs) = na + nn
                  /\ \A i \in 1..na :
                        /\ qs[i].uuid = ans_rows[p][i].q.uuid
                        /\ qs[i].answer # None
                        /\ qs[i].answer.uuid = ans_rows[p][i].ans.uuid
                        /\ qs[i].answer.answer = ans_rows[p][i].ans.answer
                        /\ qs[i].answer.type = ans_rows[p][i].ans.type
                  /\ \A j \in 1..nn :
                        /\ qs[na + j].uuid = no_ans_rows[p][j].q.uuid
                        /\ qs[na + j].answer = None

\* a reconciliation of two answered rows and an unanswered one has returned
C4_Witness ==
    \E p \in Procs :
        /\ Traversed(p)
        /\ Len(ans_rows[p]) = 2
        /\ Len(no_ans_rows[p]) >= 1
        /\ result[p].kind = "ok"

\* C5: with requests run one at a time, a fetch for A returns each question
\* at most once, and a returned question has an answer exactly when the
\* store holds a HAS_ANSWER relationship from it scoped to A; the answer is
\* that relationship's Answer.
C5_AnswerIffScoped ==
    \A p \in Procs :
        (Traversed(p) /\ result[p].kind = "ok") =>
            LET a == op[p].applicationUuid
                qs == result[p].value.questions
            IN /\ \A i, j \in 1..Len(qs) : qs[i].uuid = qs[j].uuid => i = j
               /\ \A i \in 1..Len(qs) :
                     /\ qs[i].answer # None <=> RelsFor(rels, qs[i].uuid, a) # {}
                     /\ qs[i].answer # None =>
                           \E r \in RelsFor(rels, qs[i].uuid, a) :
                               qs[i].answer.uuid = r.a_uuid

\* a fetch for A1 returned Q1 unanswered while Q1 is answered under A2
C5_Witness ==
    \E p \in Procs :
        /\ Traversed(p) /\ result[p].kind = "ok"
        /\ op[p].applicationUuid = "A1"
        /\ RelsFor(rels, "Q1", "A2") # {}
        /\ \E i \in 1..Len(result[p].value.questions) :
              /\ result[p].value.questions[i].uuid = "Q1"
              /\ result[p].value.questions[i].answer = None

\* C6: row lists that share a question id make the reconciliation raise an
\* internal-consistency error.
C6_DisjointnessEnforced ==
    \A p \in Procs :
        (Traversed(p) /\ \E i \in 1..Len(ans_rows[p]), j \in 1..Len(no_ans_rows[p]) :
                            ans_rows[p][i].q.uuid = no_ans_rows[p][j].q.uuid) =>
            result[p] = [kind |-> "error", error |-> "InternalConsistencyError"]

\* C7: with saves in flight at the same time, no (question, application)
\* pair ever has more than one HAS_ANSWER relationship created or present,
\* and once two overlapping saves of the same pair have both run, the Answer
\* carries the payload of the one whose request ran last.
C7_ConcurrentUpsert ==
    /\ \A pr \in Pairs :
          /\ created[pr] <= 1
          /\ Cardinality(RelsFor(rels, pr[1], pr[2])) <= 1
    /\ \A p1, p2 \in Procs :
          (SaveRan(p1) /\ SaveRan(p2) /\ p2 \in ranAfter[p1]
             /\ op[p1].applicationUuid = op[p2].applicationUuid) =>
              \A q \in ExistingQuestionUuids :
                  (InBatch(op[p1].answers, q) /\ InBatch(op[p2].answers, q)) =>
                      \A r \in RelsFor(rels, q, op[p1].applicationUuid) :
                          /\ r.a_answer = LastFor(op[p1].answers, q).answer
                          /\ r.a_type = AnswerType[LastFor(op[p1].answers, q).type]

\* slot 1's save was in flight first and ran last, after slot 2's save of
\* the same pair with another payload
C7_Witness ==
    /\ SaveRan(1) /\ SaveRan(2) /\ 2 \in ranAfter[1]
    /\ op[1].applicationUuid = op[2].applicationUuid
    /\ \E q \in ExistingQuestionUuids :
          /\ InBatch(op[1].answers, q) /\ InBatch(op[2].answers, q)
          /\ LastFor(op[1].answers, q).answer # LastFor(op[2].answers, q).answer
          /\ RelsFor(rels, q, op[1].applicationUuid) # {}

\* C8: a save for application A changes no Application, no Question and no
\* relationship or Answer of a pair other than (q, A) with q in its batch;
\* no step removes a relationship, so the answered pairs only grow.
C8Step ==
    LET Touched(q, a) ==
            \E p \in Procs : /\ SaveStep(p)
                             /\ op'[p].applicationUuid = a
                             /\ InBatch(op'[p].answers, q)
    IN /\ applications' = applications
       /\ questions' = questions
       /\ \A r \in rels : r \in rels' \/ Touched(r.q, r.has_application_uuid)
       /\ \A r \in rels' : r \in rels \/ Touched(r.q, r.has_application_uuid)
       /\ \A r \in rels : RelsFor(rels', r.q, r.has_application_uuid) # {}

C8_Frame == [][C8Step]_vars

\* a later save has run next to an answer of another pair, which still
\* carries its earlier timestamps
C8_Witness ==
    \E p \in Procs : SaveRan(p) /\
        \E r1, r2 \in rels :
            /\ r2.has_application_uuid = op[p].applicationUuid
            /\ InBatch(op[p].answers, r2.q)
            /\ r2.a_updated_at = clock
            /\ r1.q = r2.q
            /\ r1.has_application_uuid # r2.has_application_uuid
            /\ r1.a_updated_at < clock

\* C9: a fetch for A that overlaps a save still returns every question of
\* application A exactly once.
C9_FetchComplete ==
    \A p \in Procs :
        (Traversed(p) /\ result[p].kind = "ok") =>
            \A q \in ExistingQuestionUuids :
                <<op[p].applicationUuid, q>> \in HasQuestion =>
                    Cardinality({i \in 1..Len(result[p].value.questions) :
                                    result[p].value.questions[i].uuid = q}) = 1

\* C10: every session is opened while the driver handle is open.
C10_SessionOnOpenDriver ==
    \A p \in Procs : pc[p] # "idle" => sessDriver[p] = "open"

====
